---- MODULE Spec2Model ----
(***************************************************************************)
(* Model of hfs_paths (src/src/lib.rs): convert_path turns an HFS path     *)
(* ("Volume:dir:file") into a POSIX path by looking the volume up in       *)
(* /Volumes and joining the remaining segments onto the volume's root.     *)
(*                                                                         *)
(* Strings and paths are sequences of one-character strings, so that       *)
(* split, replace and PathBuf::join are modelled character by character.   *)
(***************************************************************************)
EXTENDS Integers, Sequences, FiniteSets, TLC

(***************************************************************************)
(* Bounds of the model                                                     *)
(***************************************************************************)
\* longest enumerated input string
MaxLen == 4
\* largest enumerated /Volumes listing
MaxEntries == 2

\* characters of the enumerated inputs: both separators and a letter
InputChars == {":", "/", "a"}
\* names of the enumerated /Volumes entries
EntryNames == {<<"a">>, <<"A">>, <<"a", "a">>, <<":", "a">>}
\* targets of the enumerated symbolic links: the filesystem root, another
\* entry of /Volumes (which may be a link itself) and a relative target
LinkTargets ==
    { <<"/">>,
      <<"/", "V", "o", "l", "u", "m", "e", "s", "/", "A">>,
      <<".", ".", "/", "a">> }
\* errors the operating system may raise on an I/O call
OsErrors == {"EACCES", "EIO"}

(***************************************************************************)
(* Strings                                                                 *)
(***************************************************************************)
\* fs::read_dir("/Volumes")
MountDir == <<"/", "V", "o", "l", "u", "m", "e", "s">>

\* position of the first occurrence of c in s, 0 when there is none
RECURSIVE IndexFrom(_, _, _)
IndexFrom(s, c, i) ==
    IF i > Len(s) THEN 0
    ELSE IF s[i] = c THEN i
    ELSE IndexFrom(s, c, i + 1)

\* pieces of s between occurrences of c, empty pieces kept
RECURSIVE SplitOn(_, _)
SplitOn(s, c) ==
    LET i == IndexFrom(s, c, 1)
    IN  IF i = 0 THEN <<s>>
        ELSE <<SubSeq(s, 1, i - 1)>> \o SplitOn(SubSeq(s, i + 1, Len(s)), c)

\* a split that drops empty pieces (as split_terminator/filter would)
SplitSkipEmpty(path) ==
    SelectSeq(SplitOn(path, ":"), LAMBDA p : p # <<>>)

\* path.split(':')
Split(path) == SplitOn(path, ":")

\* a replace that leaves the string as it is
EscapeNone(s) == s

\* s.replace('/', ":")
Escape(s) == [i \in 1..Len(s) |-> IF s[i] = "/" THEN ":" ELSE s[i]]

\* Path::is_absolute (Unix): the path has a root
IsAbsolute(p) == Len(p) > 0 /\ p[1] = "/"

\* a join that concatenates without a separator
JoinNoSep(path, seg) == path \o seg

\* PathBuf::join / PathBuf::push (Unix): an absolute argument replaces the
\* path; otherwise a separator is added unless the path is empty or already
\* ends with one, and the argument is appended
Join(path, seg) ==
    LET need_sep == Len(path) > 0 /\ path[Len(path)] # "/"
    IN  IF IsAbsolute(seg) THEN seg
        ELSE IF need_sep THEN path \o <<"/">> \o seg
        ELSE path \o seg

(***************************************************************************)
(* The mount registry: the listing of /Volumes, in iteration order         *)
(***************************************************************************)
DirEntry(n)     == [name |-> n, isLink |-> FALSE, target |-> <<>>]
LinkEntry(n, t) == [name |-> n, isLink |-> TRUE, target |-> t]

Entries ==
    {DirEntry(n) : n \in EntryNames}
    \cup {LinkEntry(n, t) : n \in EntryNames, t \in LinkTargets}

\* a directory holds at most one entry of a name
UniqueNames(r) ==
    \A i, j \in 1..Len(r) : r[i].name = r[j].name => i = j

RECURSIVE SeqsUpTo(_, _)
SeqsUpTo(S, n) ==
    IF n = 0 THEN {<<>>}
    ELSE LET shorter == SeqsUpTo(S, n - 1)
         IN  shorter \cup {Append(s, x) : s \in {q \in shorter : Len(q) = n - 1}, x \in S}

Registries == {r \in SeqsUpTo(Entries, MaxEntries) : UniqueNames(r)}
Inputs     == SeqsUpTo(InputChars, MaxLen)

(***************************************************************************)
(* The volumes and paths of tests::test_paths                              *)
(***************************************************************************)
MacintoshSSD == <<"M", "a", "c", "i", "n", "t", "o", "s", "h", " ", "S", "S", "D">>
BOOTCAMP     == <<"B", "O", "O", "T", "C", "A", "M", "P">>

TestRegistry == <<LinkEntry(MacintoshSSD, <<"/">>), DirEntry(BOOTCAMP)>>

Test1 == MacintoshSSD \o <<":", "f", "o", "l", "d", "e", "r", "1", ":", "f", "i", "l", "e">>
Test2 == MacintoshSSD
Test3 ==
    MacintoshSSD
    \o <<":", "f", "o", "l", "d", "e", "r", "/", "w", "i", "t", "h", "/",
         "s", "l", "a", "s", "h", "e", "s">>
    \o <<":", "f", "i", "l", "e", ".", "t", "x", "t">>
Test4 ==
    BOOTCAMP
    \o <<":", "I", "n", "t", "e", "l", ":", "L", "o", "g", "s">>
    \o <<":", "I", "n", "t", "e", "l", "G", "F", "X", ".", "l", "o", "g">>

Expected1 == <<"/", "f", "o", "l", "d", "e", "r", "1", "/", "f", "i", "l", "e">>
Expected2 == <<"/">>
Expected3 ==
    <<"/", "f", "o", "l", "d", "e", "r", ":", "w", "i", "t", "h", ":",
      "s", "l", "a", "s", "h", "e", "s">>
    \o <<"/", "f", "i", "l", "e", ".", "t", "x", "t">>
Expected4 ==
    MountDir \o <<"/">> \o BOOTCAMP
    \o <<"/", "I", "n", "t", "e", "l", "/", "L", "o", "g", "s">>
    \o <<"/", "I", "n", "t", "e", "l", "G", "F", "X", ".", "l", "o", "g">>

Tests == {<<Test1, Expected1>>, <<Test2, Expected2>>,
          <<Test3, Expected3>>, <<Test4, Expected4>>}

(***************************************************************************)
(* State of one call of convert_path                                       *)
(***************************************************************************)
VARIABLES
    input,        \* the argument `path: &str`
    registry,     \* the listing of /Volumes
    pc,           \* Parsing, Resolving, Composing, Done, InvalidInput, Failed
    segments,     \* the iterator `segments`: the segments not yet consumed
    volume_name,  \* the escaped volume name passed to find_volume
    dir,          \* the ReadDir iterator of find_volume: "closed" or "open"
    idx,          \* number of entries the loop of find_volume has passed
    path,         \* the PathBuf `path` being built
    result,       \* what convert_path returned
    root,         \* what find_volume returned
    calls,        \* number of calls of find_volume
    osError       \* the error the operating system raised, "none" if none

vars == <<input, registry, pc, segments, volume_name, dir, idx, path,
          result, root, calls, osError>>

(***************************************************************************)
(* enum Error and Result                                                   *)
(***************************************************************************)
Pending              == [kind |-> "Pending"]
Ok(p)                == [kind |-> "Ok", path |-> p]
InvalidHfsPath       == [kind |-> "InvalidHfsPath"]
VolumeNotFound(name) == [kind |-> "VolumeNotFound", volume |-> name]

\* an I/O error reported as a missing volume
IoAsNotFound(err) == [kind |-> "VolumeNotFound", volume |-> volume_name]

\* Error::Io, built by from() at each `?`
Io(err) == [kind |-> "Io", err |-> err]

(***************************************************************************)
(* find_volume                                                             *)
(***************************************************************************)
\* a comparison that ignores letter case
NameMatchesNoCase(file_name, name) ==
    LET Lower(s) == [i \in 1..Len(s) |-> IF s[i] = "A" THEN "a" ELSE s[i]]
    IN  Lower(file_name) = Lower(name)

\* a comparison that accepts an entry the name is a prefix of
NameMatchesPrefix(file_name, name) ==
    /\ Len(name) <= Len(file_name)
    /\ SubSeq(file_name, 1, Len(name)) = name

\* entry.file_name() == OsStr::new(name)
NameMatches(file_name, name) == file_name = name

\* the entry's name alone, without the directory
EntryPathBare(e) == <<"/">> \o e.name

\* entry.path(): the directory joined with the file name
EntryPath(e) == Join(MountDir, e.name)

\* a link resolution that goes on through links of /Volumes
RECURSIVE Canonical(_, _)
Canonical(t, fuel) ==
    IF fuel = 0 THEN t
    ELSE LET hit == {i \in 1..Len(registry) :
                        registry[i].isLink /\ EntryPath(registry[i]) = t}
         IN  IF hit = {} THEN t
             ELSE Canonical(registry[CHOOSE i \in hit : TRUE].target, fuel - 1)
ReadLinkCanonical(e) == Canonical(e.target, Len(registry))

\* fs::read_link(entry.path()): the target stored in the link
ReadLink(e) == e.target

Init ==
    /\ \/ input \in Inputs /\ registry \in Registries
       \/ input \in {t[1] : t \in Tests} /\ registry = TestRegistry
    /\ pc = "Parsing"
    /\ segments = <<>>
    /\ volume_name = <<>>
    /\ dir = "closed"
    /\ idx = 0
    /\ path = <<>>
    /\ result = Pending
    /\ root = <<>>
    /\ calls = 0
    /\ osError = "none"

\* convert_path, lines 20-25 and 35: split, take the volume name, escape it
Parse ==
    /\ pc = "Parsing"
    /\ LET all == Split(input)
       IN  IF all = <<>>
           THEN /\ pc' = "InvalidInput"
                /\ result' = InvalidHfsPath
                /\ UNCHANGED <<segments, volume_name>>
           ELSE /\ pc' = "Resolving"
                /\ volume_name' = Escape(Head(all))
                /\ segments' = Tail(all)
                /\ UNCHANGED result
    /\ UNCHANGED <<input, registry, dir, idx, path, root, calls, osError>>

\* find_volume, line 41: fs::read_dir("/Volumes")?
OpenDir ==
    /\ pc = "Resolving"
    /\ dir = "closed"
    /\ calls' = calls + 1
    /\ \/ /\ dir' = "open"
          /\ UNCHANGED <<pc, result, osError>>
       \/ \E err \in OsErrors :
            /\ osError' = err
            /\ result' = Io(err)
            /\ pc' = "Failed"
            /\ UNCHANGED dir
    /\ UNCHANGED <<input, registry, segments, volume_name, idx, path, root>>

\* find_volume, lines 41-51: one turn of the loop over the entries
ScanEntry ==
    /\ pc = "Resolving"
    /\ dir = "open"
    /\ idx < Len(registry)
    /\ LET entry == registry[idx + 1]
           Fail(err) == /\ osError' = err
                        /\ result' = Io(err)
                        /\ pc' = "Failed"
                        /\ UNCHANGED <<idx, root, path>>
           Return(p) == /\ root' = p
                        /\ path' = p
                        /\ pc' = "Composing"
                        /\ UNCHANGED <<idx, result, osError>>
       IN  \* let entry = entry?;
           \/ \E err \in OsErrors : Fail(err)
           \/ /\ ~NameMatches(entry.name, volume_name)
              /\ idx' = idx + 1
              /\ UNCHANGED <<pc, result, root, path, osError>>
           \/ /\ NameMatches(entry.name, volume_name)
              /\ \* entry.file_type()?
                 \/ \E err \in OsErrors : Fail(err)
                 \/ /\ entry.isLink
                    /\ \* fs::read_link(entry.path())?
                       \/ \E err \in OsErrors : Fail(err)
                       \/ Return(ReadLink(entry))
                 \/ /\ ~entry.isLink
                    /\ Return(EntryPath(entry))
    /\ UNCHANGED <<input, registry, segments, volume_name, dir, calls>>

\* find_volume, line 53: the listing is exhausted
NotFound ==
    /\ pc = "Resolving"
    /\ dir = "open"
    /\ idx = Len(registry)
    /\ result' = VolumeNotFound(volume_name)
    /\ pc' = "Failed"
    /\ UNCHANGED <<input, registry, segments, volume_name, dir, idx, path,
                   root, calls, osError>>

\* a loop body that appends the segment without consuming it
ComposeStuck ==
    /\ pc = "Composing"
    /\ segments # <<>>
    /\ path' = Join(path, Escape(Head(segments)))
    /\ UNCHANGED <<input, registry, pc, segments, volume_name, dir, idx,
                   result, root, calls, osError>>

\* convert_path, lines 29-32: escape the next segment and join it
Compose ==
    /\ pc = "Composing"
    /\ segments # <<>>
    /\ path' = Join(path, Escape(Head(segments)))
    /\ segments' = Tail(segments)
    /\ UNCHANGED <<input, registry, pc, volume_name, dir, idx, result, root,
                   calls, osError>>

\* convert_path, line 33: Ok(path)
Finish ==
    /\ pc = "Composing"
    /\ segments = <<>>
    /\ result' = Ok(path)
    /\ pc' = "Done"
    /\ UNCHANGED <<input, registry, segments, volume_name, dir, idx, path,
                   root, calls, osError>>

Next ==
    \/ Parse
    \/ OpenDir
    \/ ScanEntry
    \/ NotFound
    \/ Compose
    \/ Finish

Spec == Init /\ [][Next]_vars

TypeOK ==
    /\ pc \in {"Parsing", "Resolving", "Composing", "Done", "InvalidInput", "Failed"}
    /\ dir \in {"closed", "open"}
    /\ idx \in 0..Len(registry)
    /\ calls \in 0..1
    /\ osError \in OsErrors \cup {"none"}
    /\ result.kind \in {"Pending", "Ok", "InvalidHfsPath", "VolumeNotFound", "Io"}

(***************************************************************************)
(* Vocabulary of the properties, stated on the text of the input and of    *)
(* the returned path                                                       *)
(***************************************************************************)
\* the input's first colon-separated segment and the segments after it
First == Head(SplitOn(input, ":"))
Rest  == Tail(SplitOn(input, ":"))
NonEmptyRest == SelectSeq(Rest, LAMBDA s : s # <<>>)

\* the '/'-delimited names of a path
Components(p) == SelectSeq(SplitOn(p, "/"), LAMBDA c : c # <<>>)

SlashToColon(s) == [i \in 1..Len(s) |-> IF s[i] = "/" THEN ":" ELSE s[i]]
ColonToSlash(s) == [i \in 1..Len(s) |-> IF s[i] = ":" THEN "/" ELSE s[i]]
HasSlash(s)     == \E i \in 1..Len(s) : s[i] = "/"

IsPrefix(p, q) == Len(p) <= Len(q) /\ SubSeq(q, 1, Len(p)) = p

CountSep(s) == Cardinality({i \in 1..Len(s) : s[i] = ":"})

RECURSIVE SumLen(_)
SumLen(ss) == IF ss = <<>> THEN 0 ELSE Len(Head(ss)) + SumLen(Tail(ss))

Terminal == pc \in {"Done", "Failed", "InvalidInput"}
Resolved == pc \in {"Composing", "Done"}

\* the entry find_volume returned on
Matched == registry[idx + 1]

NoEntryNamed(name) == \A i \in 1..Len(registry) : registry[i].name # name

(***************************************************************************)
(* C1                                                                      *)
(***************************************************************************)
\* C1 (as claimed): a successful call returns the volume root R followed by
\* exactly one component per remaining segment, in order, each the escaped
\* segment; R is never replaced or shortened, and with no ':' in the input
\* the result is R itself.
C1_OneComponentPerSegment ==
    pc = "Done" =>
        /\ result.kind = "Ok"
        /\ IsPrefix(root, result.path)
        /\ Components(result.path)
             = Components(root) \o [k \in 1..Len(Rest) |-> SlashToColon(Rest[k])]
        /\ (Rest = <<>> => result.path = root)

\* C1 (amended): a successful call returns the volume root R followed by
\* exactly one '/'-delimited component per remaining NON-EMPTY segment, in
\* order, each the escaped segment; an empty segment adds no component; R is
\* never replaced or shortened, and with no ':' in the input the result is R.
C1_OneComponentPerNonEmptySegment ==
    pc = "Done" =>
        /\ result.kind = "Ok"
        /\ IsPrefix(root, result.path)
        /\ Components(result.path)
             = Components(root)
               \o [k \in 1..Len(NonEmptyRest) |-> SlashToColon(NonEmptyRest[k])]
        /\ (Rest = <<>> => result.path = root)

\* a call that succeeded on an input with an empty segment followed by a
\* non-empty one, under a volume root other than /
C1_Witness ==
    /\ pc = "Done"
    /\ result.kind = "Ok"
    /\ Len(Rest) >= 2
    /\ Rest[1] = <<>>
    /\ Rest[2] # <<>>
    /\ root # <<"/">>

(***************************************************************************)
(* C2                                                                      *)
(***************************************************************************)
\* C2: in a returned path, the component made from a segment that contains
\* '/' has the segment's length, has ':' exactly where the segment has '/',
\* equals the segment elsewhere, holds no '/', and gives the segment back
\* when its ':' are replaced by '/'.
C2_EscapedComponent ==
    pc = "Done" =>
        LET comps == Components(result.path)
            base  == Len(Components(root))
        IN  \A k \in 1..Len(NonEmptyRest) :
                LET seg == NonEmptyRest[k]
                IN  HasSlash(seg) =>
                        /\ base + k <= Len(comps)
                        /\ LET comp == comps[base + k]
                           IN  /\ Len(comp) = Len(seg)
                               /\ \A i \in 1..Len(seg) :
                                     /\ (comp[i] = ":") <=> (seg[i] = "/")
                                     /\ seg[i] # "/" => comp[i] = seg[i]
                                     /\ comp[i] # "/"
                               /\ ColonToSlash(comp) = seg

\* the third path of test_paths: "folder/with/slashes" became
\* "folder:with:slashes"
C2_Witness ==
    /\ pc = "Done"
    /\ input = Test3
    /\ result = Ok(Expected3)

(***************************************************************************)
(* C3                                                                      *)
(***************************************************************************)
\* C3 (as claimed): when no entry of /Volumes has the requested name and no
\* I/O error occurs, the call fails with VolumeNotFound carrying the first
\* segment of the input.
C3_NotFoundCarriesFirstSegment ==
    (Terminal /\ osError = "none" /\ NoEntryNamed(SlashToColon(First))) =>
        /\ pc = "Failed"
        /\ result = VolumeNotFound(First)

\* C3 (amended): when no entry of /Volumes has the requested name and no I/O
\* error occurs, the call fails with VolumeNotFound carrying the requested
\* name, which is the first segment of the input with every '/' replaced by
\* ':', whatever the number of entries and whatever segments follow.
C3_NotFoundCarriesEscapedName ==
    (Terminal /\ osError = "none" /\ NoEntryNamed(SlashToColon(First))) =>
        /\ pc = "Failed"
        /\ result = VolumeNotFound(SlashToColon(First))

\* a volume with '/' in its name was not found among two entries, with
\* segments after the volume name
C3_Witness ==
    /\ pc = "Failed"
    /\ result.kind = "VolumeNotFound"
    /\ HasSlash(First)
    /\ Len(registry) >= 2
    /\ Len(Rest) >= 1

(***************************************************************************)
(* C4                                                                      *)
(***************************************************************************)
\* C4: when the matching entry is a symbolic link, the volume root is the
\* target stored in that link, even when the target names another link.
C4_LinkTarget ==
    (Resolved /\ Matched.isLink) => root = Matched.target

\* the matching link points to another entry of /Volumes that is a link too
C4_Witness ==
    /\ pc = "Done"
    /\ Matched.isLink
    /\ root = Matched.target
    /\ \E j \in 1..Len(registry) :
          /\ registry[j].isLink
          /\ Matched.target = MountDir \o <<"/">> \o registry[j].name

(***************************************************************************)
(* C5                                                                      *)
(***************************************************************************)
\* C5: when the matching entry is not a symbolic link, the volume root is
\* /Volumes/<volume-name>; the root is / only through a link whose target
\* is /; and "BOOTCAMP:Intel:Logs:IntelGFX.log" on a BOOTCAMP directory
\* gives /Volumes/BOOTCAMP/Intel/Logs/IntelGFX.log.
C5_DirectoryRoot ==
    /\ (Resolved /\ ~Matched.isLink) => root = MountDir \o <<"/">> \o volume_name
    /\ (Resolved /\ root = <<"/">>) => (Matched.isLink /\ Matched.target = <<"/">>)
    /\ (pc = "Done" /\ input = Test4 /\ ~Matched.isLink) => result = Ok(Expected4)

\* the fourth path of test_paths
C5_Witness ==
    /\ pc = "Done"
    /\ input = Test4
    /\ ~Matched.isLink
    /\ result = Ok(Expected4)

(***************************************************************************)
(* C6                                                                      *)
(***************************************************************************)
\* C6: once an I/O call has failed, the call has ended with the Io error
\* that wraps the system's error: it holds no path, it is not
\* VolumeNotFound, and no step (no further entry, no retry) follows.
C6_IoFailureAborts ==
    osError # "none" =>
        /\ pc = "Failed"
        /\ result = [kind |-> "Io", err |-> osError]
        /\ root = <<>>
        /\ path = <<>>
        /\ ~ENABLED Next

\* reading an entry failed while an entry of the requested name was still
\* ahead in the listing
C6_Witness ==
    /\ pc = "Failed"
    /\ result.kind = "Io"
    /\ dir = "open"
    /\ registry[idx + 1].name # volume_name
    /\ \E j \in (idx + 2)..Len(registry) : registry[j].name = volume_name

(***************************************************************************)
(* C7                                                                      *)
(***************************************************************************)
\* C7: every path convert_path returns is absolute: it starts with '/'.
C7_AlwaysAbsolute ==
    result.kind = "Ok" => (Len(result.path) > 0 /\ result.path[1] = "/")

(***************************************************************************)
(* C8                                                                      *)
(***************************************************************************)
\* C8: the name looked up is the first segment with '/' replaced by ':';
\* the entry resolution returns on has exactly that name, and every entry
\* passed over before it has another name.
C8_ExactMatch ==
    /\ pc # "Parsing" => volume_name = SlashToColon(First)
    /\ \A j \in 1..idx : registry[j].name # SlashToColon(First)
    /\ Resolved => Matched.name = SlashToColon(First)

\* a volume with '/' in its name was resolved after an entry of another
\* name was passed over
C8_Witness ==
    /\ pc = "Done"
    /\ HasSlash(First)
    /\ idx >= 1
    /\ Matched.name = <<":", "a">>

(***************************************************************************)
(* C9                                                                      *)
(***************************************************************************)
\* what every step of a call respects
C9_Step ==
    /\ pc' # pc =>
          <<pc, pc'>> \in { <<"Parsing", "Resolving">>, <<"Parsing", "InvalidInput">>,
                            <<"Resolving", "Composing">>, <<"Resolving", "Failed">>,
                            <<"Composing", "Done">> }
    /\ calls' # calls =>
          /\ calls = 0 /\ calls' = 1
          /\ pc = "Resolving"
          /\ Len(segments) = Len(Rest)
    /\ path' # path => calls = 1
    /\ result' # result =>
          /\ result = Pending
          /\ result'.kind = "InvalidHfsPath" => pc = "Parsing"
          /\ result'.kind \in {"VolumeNotFound", "Io"} => pc = "Resolving"
          /\ result'.kind = "Ok" => pc = "Composing"
    /\ pc \in {"Failed", "InvalidInput", "Done"} => UNCHANGED vars
    /\ pc = "Composing" =>
          \/ pc' = "Done" /\ result'.kind = "Ok"
          \/ pc' = "Composing" /\ Len(segments') < Len(segments)

\* C9: a call goes Parsing, Resolving, Composing, Done in that order; the
\* resolver is called at most once and before any segment is appended;
\* InvalidHfsPath is raised only in Parsing, VolumeNotFound and Io only in
\* Resolving; nothing changes after a failure; and a call in Composing can
\* always step, each step consuming a segment or ending in Done with a path.
C9_Pipeline ==
    /\ [][C9_Step]_vars
    /\ [](pc = "Composing" => ENABLED (Compose \/ Finish))

\* a call that composed two segments and is done
C9_Witness ==
    /\ pc = "Done"
    /\ calls = 1
    /\ Len(Rest) >= 2
    /\ segments = <<>>

(***************************************************************************)
(* C10                                                                     *)
(***************************************************************************)
\* C10: splitting yields the number of ':' plus one segments, empty ones
\* kept, so that the call never ends with InvalidHfsPath, always calls the
\* resolver, and looks the empty name up for the empty input.
C10_AtLeastOneSegment ==
    /\ pc # "InvalidInput"
    /\ result.kind # "InvalidHfsPath"
    /\ (pc = "Resolving" /\ dir = "closed") =>
          /\ 1 + Len(segments) = CountSep(input) + 1
          /\ Len(volume_name) + SumLen(segments) + CountSep(input) = Len(input)
    /\ Terminal => calls = 1
    /\ (pc # "Parsing" /\ input = <<>>) => volume_name = <<>>

\* the empty input was looked up as the empty volume name
C10_Witness ==
    /\ input = <<>>
    /\ pc = "Failed"
    /\ result = VolumeNotFound(<<>>)

====
